---- MODULE Spec2Model ----
(***************************************************************************)
(* Conway's Game of Life on a bounded, zero-padded board                   *)
(* (src/src/conway_game.py, class ConwayGameOfLife).                       *)
(*                                                                         *)
(* numpy arrays are modelled as headers (base, offset, shape, strides)     *)
(* over flat row-major buffers kept in `heap`, so that views, as_strided   *)
(* windows and assignment through a view behave as they do in numpy.       *)
(* Strides are counted in elements.  Multi-indices are sequences of        *)
(* 0-based coordinates.                                                    *)
(***************************************************************************)
EXTENDS Integers, Sequences, FiniteSets, TLC

VARIABLES
    arg,             \* header of the object passed as `board` to __init__
    heap,            \* [caller |-> data of the caller's array, expanded |-> data of np.zeros(...)]
    pc,              \* "new" (before __init__), "idle" (game constructed), "raised"
    exc,             \* the exception __init__ raised, or NoExc
    lookup,          \* self.lookup
    expanded_board,  \* header of self.expanded_board
    board,           \* header of self.board
    printed,         \* what the most recent run_iterations call printed, in order
    op,              \* the operation that produced this state
    n_arg,           \* argument n of the most recent run_iterations call
    verbose_arg,     \* argument verbose of the most recent run_iterations call
    prev,            \* heap as it was when the most recent operation started
    written,         \* the caller has overwritten its own array since construction
    built,           \* heap as __init__ left it
    gens             \* generations asked for since construction (sum of the n)

vars == <<arg, heap, pc, exc, lookup, expanded_board, board, printed, op,
          n_arg, verbose_arg, prev, written, built, gens>>

----------------------------------------------------------------------------
(* Bounds of the model *)

\* largest number of rows and of columns of a two-dimensional input grid
MaxRows == 3
MaxCols == 3
\* largest number of cells of a two-dimensional input grid
MaxCells == 9
\* largest total number of generations run on one game
MaxGens == 2
\* largest extent of the small grids whose cells range over 0..BadValue
MaxBadDim == 2
\* largest total number of generations run on a board of the tests
MaxPatternGens == 4

\* a cell value that is neither 0 nor 1
BadValue == 2
\* the scalar passed as a board
ScalarBoard == 3

----------------------------------------------------------------------------
(* Arithmetic on sequences *)

RECURSIVE SumSeq(_)
SumSeq(s) == IF s = <<>> THEN 0 ELSE Head(s) + SumSeq(Tail(s))

\* s[1] + ... + s[k]
RECURSIVE SumTo(_, _)
SumTo(s, k) == IF k = 0 THEN 0 ELSE s[k] + SumTo(s, k - 1)

RECURSIVE Prod(_)
Prod(s) == IF s = <<>> THEN 1 ELSE Head(s) * Prod(Tail(s))

\* the sequence s with every element computed and stored, as numpy stores the
\* elements of every array it builds
Stored(s) == s \o <<>>

Max2(a, b) == IF a > b THEN a ELSE b
Min2(a, b) == IF a < b THEN a ELSE b

----------------------------------------------------------------------------
(* numpy arrays *)

\* no array: an attribute that was never assigned
NoArray ==
    [kind |-> "none", base |-> "none", offset |-> 0, shape |-> <<>>, strides |-> <<>>]

\* strides of a C-contiguous array of the given shape
CStrides(shape) ==
    Stored([k \in 1..Len(shape) |-> Prod(SubSeq(shape, k + 1, Len(shape)))])

\* the q-th multi-index (q = 0, 1, ...) of the given shape in row-major order
Unravel(q, shape) ==
    LET cs == CStrides(shape)
    IN Stored([k \in 1..Len(shape) |-> (q \div cs[k]) % shape[k]])

\* x[1]*y[1] + ... + x[k]*y[k]
RECURSIVE Dot(_, _, _)
Dot(x, y, k) == IF k = 0 THEN 0 ELSE x[k] * y[k] + Dot(x, y, k - 1)

\* position in the flat buffer of element idx of array a
Pos(a, idx) == 1 + a.offset + Dot(idx, a.strides, Len(idx))

\* a[idx] read from memory h
At(h, a, idx) == h[a.base][Pos(a, idx)]

\* the offset in the buffer of the q-th element (q = 0, 1, ...) in row-major
\* order of an array of the given shape and strides; cs = CStrides(shape),
\* k = Len(shape)
RECURSIVE OffsetOf(_, _, _, _, _)
OffsetOf(q, shape, cs, strides, k) ==
    IF k = 0 THEN 0
    ELSE ((q \div cs[k]) % shape[k]) * strides[k]
         + OffsetOf(q, shape, cs, strides, k - 1)

\* the value of array a: its shape and its elements in row-major order
Value(h, a) ==
    LET buf == h[a.base]
        sh == a.shape
        st == a.strides
        cs == CStrides(a.shape)
        nd == Len(a.shape)
        first == 1 + a.offset
    IN [shape |-> sh,
        flat  |-> Stored([q \in 1..Prod(sh) |->
                            buf[first + OffsetOf(q - 1, sh, cs, st, nd)]])]

\* a buffer filled with ones, as np.ones would allocate it
ones(shape) == [p \in 1..Prod(shape) |-> 1]

\* np.zeros(shape, dtype = np.uint8): the fresh buffer
zeros(shape) == Stored([p \in 1..Prod(shape) |-> 0])

\* one slice start:stop applied to an axis of extent d (step 1)
SliceStart(sl, d) ==
    IF sl.start < 0 THEN Max2(sl.start + d, 0) ELSE Min2(sl.start, d)
SliceStop(sl, d) ==
    IF sl.stop < 0 THEN Max2(sl.stop + d, 0) ELSE Min2(sl.stop, d)

\* a[slices]: basic slicing of the leading axes gives a view of the same buffer
GetItem(a, slices) ==
    [kind    |-> a.kind,
     base    |-> a.base,
     offset  |-> a.offset
                 + SumSeq([k \in 1..Len(slices) |->
                              SliceStart(slices[k], a.shape[k]) * a.strides[k]]),
     shape   |-> [k \in 1..Len(a.shape) |->
                    IF k <= Len(slices)
                    THEN Max2(SliceStop(slices[k], a.shape[k])
                              - SliceStart(slices[k], a.shape[k]), 0)
                    ELSE a.shape[k]],
     strides |-> a.strides]

\* numpy's rule for assigning a value of shape src into a target of shape dst
CanBroadcast(src, dst) ==
    /\ Len(src) <= Len(dst)
    /\ \A k \in 1..Len(src) :
          src[k] = dst[k + Len(dst) - Len(src)] \/ src[k] = 1

\* the index of the source element that lands on target element idx
BroadcastIndex(src, idx) ==
    [k \in 1..Len(src) |-> IF src[k] = 1 THEN 0 ELSE idx[k + Len(idx) - Len(src)]]

\* the element of the value v that lands on target element idx
BroadcastAt(v, idx) ==
    v.flat[1 + Dot(BroadcastIndex(v.shape, idx), CStrides(v.shape), Len(v.shape))]

\* conversion to dtype uint8 on assignment
uint8(x) == x % 256

\* the buffer data after vals[1..k] have been stored at positions pos[1..k]
RECURSIVE Store(_, _, _, _)
Store(data, pos, vals, k) ==
    IF k = 0 THEN data
    ELSE [Store(data, pos, vals, k - 1) EXCEPT ![pos[k]] = vals[k]]

\* dst[...] = v, written through the view dst into memory h: the elements of
\* dst are assigned in row-major order, v broadcast to the shape of dst and
\* converted to uint8
SetItem(h, dst, v) ==
    LET cnt == Prod(dst.shape)
        idxs == Stored([q \in 1..cnt |-> Unravel(q - 1, dst.shape)])
        pos == Stored([q \in 1..cnt |-> Pos(dst, idxs[q])])
        vals == Stored([q \in 1..cnt |-> uint8(BroadcastAt(v, idxs[q]))])
    IN [h EXCEPT ![dst.base] = Store(h[dst.base], pos, vals, cnt)]

----------------------------------------------------------------------------
(* ConwayGameOfLife.__init__ *)

NoExc == [type |-> "none", msg |-> ""]

TypeMsg == "Board must be an numpy.array."
ShapeMsg == "Board state invalid! Must be at least 2x2."
ValueMsg == "Board state invalid! Must be filled with 0s and 1s."
IndexMsg == "too many indices for array"
BroadcastMsg == "could not broadcast input array"
LookupIndexMsg == "index out of bounds"

\* isinstance(board, np.ndarray)
isinstance_ndarray(b) == b.kind = "ndarray"

\* any(x < 1 for x in board.shape): a size check that lets 1 x n boards through
any_dim_below_1(shape) == \E k \in 1..Len(shape) : shape[k] < 1

\* any(x <= 2 for x in board.shape): a size check that turns 2 x 2 boards away
any_dim_up_to_2(shape) == \E k \in 1..Len(shape) : shape[k] <= 2

\* any(x < 2 for x in board.shape)
any_dim_below_2(shape) == \E k \in 1..Len(shape) : shape[k] < 2

\* np.all(np.isin(board, [0,1]))
all_isin_0_1(h, b) ==
    LET elements == Value(h, b).flat
    IN \A q \in 1..Len(elements) : elements[q] \in {0, 1}

\* a rule table with a slip in the alive row
lookup_table_slip == << <<0,0,0,1,0,0,0,0,0>>, <<0,0,2,1,0,0,0,0,0>> >>

\* a rule table in which an alive cell with two alive neighbours dies
lookup_table_survive_on_3 == << <<0,0,0,1,0,0,0,0,0>>, <<0,0,0,1,0,0,0,0,0>> >>

\* np.asarray([[0,0,0,1,0,0,0,0,0],[0,0,1,1,0,0,0,0,0]])
lookup_table == << <<0,0,0,1,0,0,0,0,0>>, <<0,0,1,1,0,0,0,0,0>> >>

\* tuple(d+2 for d in board.shape)
expanded_shape(shape) == [k \in 1..Len(shape) |-> shape[k] + 2]

\* (slice(0, -2),) * 2: a slice that starts on the border
board_slice_from_0 == << [start |-> 0, stop |-> -2], [start |-> 0, stop |-> -2] >>

\* (slice(1, -1),) * 2
board_slice == << [start |-> 1, stop |-> -1], [start |-> 1, stop |-> -1] >>

\* self.board = board: the attribute bound to the caller's own array
self_board_alias(b, eb) == b

\* self.board = self.expanded_board[board_slice]
self_board(b, eb) == GetItem(eb, board_slice)

\* the outcome of __init__(board = b) started in memory h: the exception
\* raised (or NoExc), the attributes assigned so far, and memory
ConwayGameOfLife(b, h) ==
    LET raised(type, msg, lk, eb, hh) ==
            [exc |-> [type |-> type, msg |-> msg], lookup |-> lk,
             expanded_board |-> eb, board |-> NoArray, heap |-> hh]
    IN
    IF ~isinstance_ndarray(b)
    THEN raised("NotImplementedError", TypeMsg, <<>>, NoArray, h)
    ELSE IF any_dim_below_2(b.shape)
    THEN raised("NotImplementedError", ShapeMsg, <<>>, NoArray, h)
    ELSE IF ~all_isin_0_1(h, b)
    THEN raised("NotImplementedError", ValueMsg, <<>>, NoArray, h)
    ELSE
    LET eb == [kind |-> "ndarray", base |-> "expanded", offset |-> 0,
               shape |-> expanded_shape(b.shape),
               strides |-> CStrides(expanded_shape(b.shape))]
        h1 == [h EXCEPT !.expanded = zeros(eb.shape)]
    IN
    IF Len(board_slice) > Len(eb.shape)
    THEN raised("IndexError", IndexMsg, lookup_table, eb, h1)
    ELSE IF ~CanBroadcast(b.shape, GetItem(eb, board_slice).shape)
    THEN raised("ValueError", BroadcastMsg, lookup_table, eb, h1)
    ELSE [exc |-> NoExc, lookup |-> lookup_table, expanded_board |-> eb,
          board |-> self_board(b, eb),
          heap |-> SetItem(h1, GetItem(eb, board_slice), Value(h1, b))]

----------------------------------------------------------------------------
(* ConwayGameOfLife.get_all_neighbors and run_iterations *)

\* as_strided(self.expanded_board, shape = (m,n,3,3),
\*            strides = self.expanded_board.strides + self.expanded_board.strides)
get_all_neighbors(self) ==
    [kind    |-> "ndarray",
     base    |-> self.expanded_board.base,
     offset  |-> self.expanded_board.offset,
     shape   |-> <<self.board.shape[1], self.board.shape[2], 3, 3>>,
     strides |-> self.expanded_board.strides \o self.expanded_board.strides]

\* np.sum(a, axis = (-2,-1)) of a four-dimensional array a; the sum of uint8
\* elements is accumulated in a 64-bit integer, so it cannot overflow here
sum_last_two_axes(h, a) ==
    LET buf == h[a.base]
        s == a.strides
        d == a.shape
        w == d[3] * d[4]
        in_window == Stored([q \in 1..w |-> ((q - 1) \div d[4]) * s[3]
                                             + ((q - 1) % d[4]) * s[4]])
        window == Stored([p \in 1..(d[1] * d[2]) |->
                            1 + a.offset + ((p - 1) \div d[2]) * s[1]
                                         + ((p - 1) % d[2]) * s[2]])
    IN [shape |-> SubSeq(d, 1, 2),
        flat  |-> Stored([p \in 1..(d[1] * d[2]) |->
                            SumTo([q \in 1..w |-> buf[window[p] + in_window[q]]], w)])]

\* get_lookup: self.lookup[cell_status, num_neighbors]
get_lookup(self, cell_status, num_neighbors) ==
    self.lookup[cell_status + 1][num_neighbors + 1]

\* np.where with its two branches exchanged
where_lookup_swapped(self, cell, k) ==
    IF cell # 0 THEN get_lookup(self, 0, k) ELSE get_lookup(self, 1, k)

\* the next value of one cell: np.where(board, lookup[1][k], lookup[0][k])
where_lookup(self, cell, k) ==
    IF cell # 0 THEN get_lookup(self, 1, k) ELSE get_lookup(self, 0, k)

\* a cell by cell update that writes each cell before it reads the next one
RECURSIVE scan_in_place(_, _, _)
scan_in_place(self, h, q) ==
    IF q >= self.board.shape[1] * self.board.shape[2] THEN h
    ELSE LET idx == <<q \div self.board.shape[2], q % self.board.shape[2]>>
             k == sum_last_two_axes(h, get_all_neighbors(self)).flat[q + 1]
                  - At(h, self.board, idx)
         IN scan_in_place(self,
                [h EXCEPT ![self.board.base][Pos(self.board, idx)] =
                    where_lookup(self, At(h, self.board, idx), k)],
                q + 1)

generation_in_place(self, h) == [exc |-> NoExc, heap |-> scan_in_place(self, h, 0)]

\* a generation that counts a cell among its own neighbours: the sum over
\* the 3 x 3 window without "- self.board"
generation_counting_self(self, h) ==
    LET total == sum_last_two_axes(h, get_all_neighbors(self))
        cur == Value(h, self.board)
    IN IF \E q \in 1..Len(cur.flat) : total.flat[q] \notin 0..8
       THEN [exc |-> [type |-> "IndexError", msg |-> LookupIndexMsg], heap |-> h]
       ELSE [exc |-> NoExc,
             heap |-> SetItem(h, self.board,
                        [shape |-> cur.shape,
                         flat |-> Stored([q \in 1..Len(cur.flat) |->
                                    where_lookup(self, cur.flat[q], total.flat[q])])])]

\* a generation whose np.where tests the array the caller passed instead of
\* self.board, so that it reads memory outside the game
generation_on_input(self, h) ==
    LET total == sum_last_two_axes(h, get_all_neighbors(self))
        cur == Value(h, self.board)
        all_num_neighbors ==
            Stored([q \in 1..Len(cur.flat) |-> total.flat[q] - cur.flat[q]])
    IN IF \E q \in 1..Len(cur.flat) : all_num_neighbors[q] \notin 0..8
       THEN [exc |-> [type |-> "IndexError", msg |-> LookupIndexMsg], heap |-> h]
       ELSE [exc |-> NoExc,
             heap |-> SetItem(h, self.board,
                        [shape |-> cur.shape,
                         flat |-> Stored([q \in 1..Len(cur.flat) |->
                                    where_lookup(self, h.caller[q],
                                                 all_num_neighbors[q])])])]

\* the body of the loop of run_iterations: one generation.  A count outside
\* 0..8 (a negative difference wraps around in unsigned arithmetic) is no
\* index of the rule table and raises IndexError.
generation(self, h) ==
    LET total == sum_last_two_axes(h, get_all_neighbors(self))
        cur == Value(h, self.board)
        all_num_neighbors ==
            Stored([q \in 1..Len(cur.flat) |-> total.flat[q] - cur.flat[q]])
    IN IF \E q \in 1..Len(cur.flat) : all_num_neighbors[q] \notin 0..8
       THEN [exc |-> [type |-> "IndexError", msg |-> LookupIndexMsg], heap |-> h]
       ELSE [exc |-> NoExc,
             heap |-> SetItem(h, self.board,
                        [shape |-> cur.shape,
                         flat |-> Stored([q \in 1..Len(cur.flat) |->
                                    where_lookup(self, cur.flat[q],
                                                 all_num_neighbors[q])])])]

\* a loop range that runs once more than asked
range_inclusive(n) == [i \in 1..(n + 1) |-> i - 1]

\* range(n)
range(n) == Stored([i \in 1..n |-> i - 1])

\* for i in range(n): the remaining values r of i, memory h, the output so far
RECURSIVE run_loop(_, _, _, _, _)
run_loop(self, h, out, r, verbose) ==
    IF r = <<>> THEN [exc |-> NoExc, heap |-> h, out |-> out]
    ELSE LET g == generation(self, h)
         IN IF g.exc # NoExc
            THEN [exc |-> g.exc, heap |-> g.heap, out |-> out]
            ELSE run_loop(self, g.heap,
                          IF verbose THEN Append(out, Value(g.heap, self.board))
                                     ELSE out,
                          Tail(r), verbose)

\* a run that prints once, after the loop, what the board has become
run_iterations_print_last(self, h, n, verbose) ==
    LET r == run_loop(self, h, <<>>, range(n), FALSE)
    IN [r EXCEPT !.out = IF verbose /\ n > 0 /\ r.exc = NoExc
                         THEN <<Value(r.heap, self.board)>> ELSE <<>>]

\* run_iterations(n, verbose) started in memory h
run_iterations(self, h, n, verbose) == run_loop(self, h, <<>>, range(n), verbose)

----------------------------------------------------------------------------
(* The boards handed to the constructor *)

Header(inp) ==
    [kind |-> inp.kind, base |-> "caller", offset |-> 0,
     shape |-> inp.shape, strides |-> CStrides(inp.shape)]

Grids(kind, shapes, values) ==
    UNION {{[kind |-> kind, shape |-> s, data |-> d] : d \in [1..Prod(s) -> values]} :
           s \in shapes}

\* the two-dimensional shapes of the model, 1 x n and m x 1 included
Shapes2D ==
    {<<m, n>> : m \in 1..MaxRows, n \in 1..MaxCols} \cap
    {s \in [1..2 -> 1..MaxCells] : s[1] * s[2] <= MaxCells}

\* shapes of 0, 1 and 2 dimensions of extent at most MaxBadDim
SmallShapes(ndims) == UNION {[1..nd -> 1..MaxBadDim] : nd \in ndims}

\* three-dimensional shapes with extents 1 and 2
Shapes3D == [1..3 -> {1, 2}]

Inputs ==
    Grids("ndarray", Shapes2D, {0, 1})
    \cup Grids("ndarray", SmallShapes({0, 1, 2}), 0..BadValue)
    \cup Grids("ndarray", Shapes3D, 0..BadValue)
    \cup Grids("list", SmallShapes({1, 2}), {0, 1})
    \cup {[kind |-> "int", shape |-> <<>>, data |-> <<ScalarBoard>>],
          [kind |-> "NoneType", shape |-> <<>>, data |-> <<>>]}

----------------------------------------------------------------------------
(* The state machine *)

self == [lookup |-> lookup, expanded_board |-> expanded_board, board |-> board]

Init ==
    \E inp \in Inputs :
        /\ arg = Header(inp)
        /\ heap = [caller |-> inp.data, expanded |-> <<>>]
        /\ pc = "new"
        /\ exc = NoExc
        /\ lookup = <<>>
        /\ expanded_board = NoArray
        /\ board = NoArray
        /\ printed = <<>>
        /\ op = "none"
        /\ n_arg = 0
        /\ verbose_arg = FALSE
        /\ prev = heap
        /\ written = FALSE
        /\ built = heap
        /\ gens = 0

\* game = ConwayGameOfLife(board = arg)
Construct ==
    /\ pc = "new"
    /\ \E r \in {ConwayGameOfLife(arg, heap)} :
          /\ pc' = IF r.exc = NoExc THEN "idle" ELSE "raised"
          /\ exc' = r.exc
          /\ lookup' = r.lookup
          /\ expanded_board' = r.expanded_board
          /\ board' = r.board
          /\ heap' = r.heap
          /\ built' = r.heap
    /\ prev' = heap
    /\ op' = "construct"
    /\ UNCHANGED <<arg, printed, n_arg, verbose_arg, written, gens>>

\* game.run_iterations(n, verbose)
RunIterations ==
    /\ pc = "idle"
    /\ exc = NoExc
    /\ \E n \in 0..MaxGens, verbose \in BOOLEAN :
          /\ gens + n <= MaxGens
          /\ \E r \in {run_iterations(self, heap, n, verbose)} :
                /\ heap' = r.heap
                /\ exc' = r.exc
                /\ printed' = r.out
          /\ n_arg' = n
          /\ verbose_arg' = verbose
          /\ gens' = gens + n
    /\ prev' = heap
    /\ op' = "run"
    /\ UNCHANGED <<arg, pc, lookup, expanded_board, board, written, built>>

\* the caller overwrites the array it passed to the constructor: every cell
\* is replaced by its complement (read_grid[:] = 1 - read_grid)
CallerWrite ==
    /\ pc = "idle"
    /\ ~written
    /\ heap' = [heap EXCEPT !.caller = [p \in 1..Len(heap.caller) |-> 1 - heap.caller[p]]]
    /\ written' = TRUE
    /\ prev' = heap
    /\ op' = "write"
    /\ UNCHANGED <<arg, pc, exc, lookup, expanded_board, board, printed,
                   n_arg, verbose_arg, built, gens>>

Next == Construct \/ RunIterations \/ CallerWrite

Spec == Init /\ [][Next]_vars

----------------------------------------------------------------------------
(* Games on the boards of the tests (conway_tests.py) *)

\* read_grid of test_conway_glider1 .. test_conway_glider4
glider == << <<0,0,0,0,0>>, <<0,0,1,0,0>>, <<1,0,1,0,0>>, <<0,1,1,0,0>>, <<0,0,0,0,0>> >>
\* test_grid of test_conway_glider1 .. test_conway_glider4, in this order
glider_phases ==
    << << <<0,0,0,0,0>>, <<0,1,0,0,0>>, <<0,0,1,1,0>>, <<0,1,1,0,0>>, <<0,0,0,0,0>> >>,
       << <<0,0,0,0,0>>, <<0,0,1,0,0>>, <<0,0,0,1,0>>, <<0,1,1,1,0>>, <<0,0,0,0,0>> >>,
       << <<0,0,0,0,0>>, <<0,0,0,0,0>>, <<0,1,0,1,0>>, <<0,0,1,1,0>>, <<0,0,1,0,0>> >>,
       << <<0,0,0,0,0>>, <<0,0,0,0,0>>, <<0,0,0,1,0>>, <<0,1,0,1,0>>, <<0,0,1,1,0>> >> >>
\* read_grid of test_conway_oscillator1 and its test_grid
oscillator == << <<0,1,0>>, <<0,1,0>>, <<0,1,0>> >>
oscillator_flipped == << <<0,0,0>>, <<1,1,1>>, <<0,0,0>> >>
\* read_grid of test_conway_boat_still
boat == << <<0,0,0,0,0>>, <<0,1,1,0,0>>, <<0,1,0,1,0>>, <<0,0,1,0,0>>, <<0,0,0,0,0>> >>

\* np.array(rows): the rows one after the other
RECURSIVE Flat(_)
Flat(rows) == IF rows = <<>> THEN <<>> ELSE Head(rows) \o Flat(Tail(rows))

np_array(rows) ==
    [kind |-> "ndarray", shape |-> <<Len(rows), Len(rows[1])>>, data |-> Flat(rows)]

Patterns == {np_array(glider), np_array(oscillator), np_array(boat)}

InitPatterns ==
    \E inp \in Patterns :
        /\ arg = Header(inp)
        /\ heap = [caller |-> inp.data, expanded |-> <<>>]
        /\ pc = "new"
        /\ exc = NoExc
        /\ lookup = <<>>
        /\ expanded_board = NoArray
        /\ board = NoArray
        /\ printed = <<>>
        /\ op = "none"
        /\ n_arg = 0
        /\ verbose_arg = FALSE
        /\ prev = heap
        /\ written = FALSE
        /\ built = heap
        /\ gens = 0

\* game.run_iterations(n, verbose) on a board of the tests
RunPattern ==
    /\ pc = "idle"
    /\ exc = NoExc
    /\ \E n \in 0..MaxPatternGens, verbose \in BOOLEAN :
          /\ gens + n <= MaxPatternGens
          /\ \E r \in {run_iterations(self, heap, n, verbose)} :
                /\ heap' = r.heap
                /\ exc' = r.exc
                /\ printed' = r.out
          /\ n_arg' = n
          /\ verbose_arg' = verbose
          /\ gens' = gens + n
    /\ prev' = heap
    /\ op' = "run"
    /\ UNCHANGED <<arg, pc, lookup, expanded_board, board, written, built>>

NextPatterns == Construct \/ RunPattern \/ CallerWrite

SpecPatterns == InitPatterns /\ [][NextPatterns]_vars

----------------------------------------------------------------------------
(* Games on the boards the constructor accepts *)

\* the two-dimensional numpy arrays of 0s and 1s with at least 2 rows and
\* 2 columns
Boards ==
    {inp \in Grids("ndarray", Shapes2D, {0, 1}) : \A k \in 1..2 : inp.shape[k] >= 2}

InitBoards == Init /\ [kind |-> arg.kind, shape |-> arg.shape, data |-> heap.caller] \in Boards

SpecBoards == InitBoards /\ [][Next]_vars

----------------------------------------------------------------------------
(* Vocabulary of the properties: the logical board, cell by cell *)

\* the rule table of the Game of Life: row 1 for a dead cell, row 2 for an
\* alive cell, column k+1 for k alive neighbours
rule_table == << <<0,0,0,1,0,0,0,0,0>>, <<0,0,1,1,0,0,0,0,0>> >>

Rows == arg.shape[1]
Columns == arg.shape[2]
Cells == {<<r, c>> : r \in 0..(Rows - 1), c \in 0..(Columns - 1)}

\* cell (r,c) of game.board in memory h
Cell(h, r, c) == At(h, board, <<r, c>>)

\* cell (r,c) of the array the caller passed, in memory h
InputCell(h, r, c) == At(h, arg, <<r, c>>)

\* the alive cells among the up to 8 cells adjacent to (r,c) that lie on the
\* board; there is nothing beyond the edge and no wraparound
AliveNeighbours(h, r, c) ==
    Cardinality({x \in Cells : /\ x # <<r, c>>
                               /\ x[1] \in (r - 1)..(r + 1)
                               /\ x[2] \in (c - 1)..(c + 1)
                               /\ Cell(h, x[1], x[2]) = 1})

\* the argument is a two-dimensional numpy array
IsArray2D == arg.kind = "ndarray" /\ Len(arg.shape) = 2
TooSmall == \E k \in 1..Len(arg.shape) : arg.shape[k] < 2
NonBinary == \E p \in 1..Len(built.caller) : built.caller[p] \notin {0, 1}

\* the game was constructed from the grid given by its rows
StartedFrom(rows) ==
    /\ pc = "idle"
    /\ arg.shape = <<Len(rows), Len(rows[1])>>
    /\ built.caller = Flat(rows)

\* the logical board is the grid given by its rows
BoardIs(rows) == Value(heap, board) = [shape |-> arg.shape, flat |-> Flat(rows)]

\* the cells of the logical board that are alive
Alive == {x \in Cells : Cell(heap, x[1], x[2]) = 1}

\* one generation of the Game of Life on a board given by value: cells
\* beyond the edge count as dead
NextBoard(v) ==
    LET m == v.shape[1]
        n == v.shape[2]
        alive(r, c) == r \in 0..(m - 1) /\ c \in 0..(n - 1) /\ v.flat[r * n + c + 1] = 1
        count(r, c) == Cardinality({d \in (-1..1) \X (-1..1) :
                                       d # <<0, 0>> /\ alive(r + d[1], c + d[2])})
    IN [shape |-> v.shape,
        flat  |-> [q \in 1..(m * n) |->
                      rule_table[v.flat[q] + 1]
                                [count((q - 1) \div n, (q - 1) % n) + 1]]]

\* the board k generations after board v
RECURSIVE Generations(_, _)
Generations(v, k) == IF k = 0 THEN v ELSE Generations(NextBoard(v), k - 1)

----------------------------------------------------------------------------
(* Properties of construction and of stepping *)

\* C1: one call run_iterations(1) replaces every cell (r,c) by
\* rule_table[old(r,c)][count], count being the number of alive cells among
\* the adjacent on-board cells of the board as it was before the call.
C1_OneGeneration ==
    (pc = "idle" /\ op = "run" /\ n_arg = 1) =>
        /\ exc = NoExc
        /\ \A x \in Cells :
              Cell(heap, x[1], x[2]) =
                  rule_table[Cell(prev, x[1], x[2]) + 1]
                            [AliveNeighbours(prev, x[1], x[2]) + 1]

\* a 3 x 3 board that was all alive: the centre had 8 neighbours and died,
\* the corners had 3 and survived, the edge cells had 5 and died
C1_Witness ==
    /\ pc = "idle" /\ op = "run" /\ n_arg = 1
    /\ arg.shape = <<3, 3>>
    /\ AliveNeighbours(prev, 1, 1) = 8
    /\ Cell(heap, 1, 1) = 0 /\ Cell(heap, 0, 0) = 1 /\ Cell(heap, 0, 1) = 0

\* C2: after any number of generations, in any split into calls, every cell
\* of the logical board is 0 or 1.
C2_CellsBinary ==
    pc = "idle" => \A x \in Cells : Cell(heap, x[1], x[2]) \in {0, 1}

C2_Witness ==
    /\ pc = "idle" /\ gens >= 2 /\ exc = NoExc
    /\ \E x, y \in Cells : Cell(heap, x[1], x[2]) = 1 /\ Cell(heap, y[1], y[2]) = 0

\* C3: in every state of a constructed game the outer ring of
\* expanded_board (row 0, row m+1, column 0, column n+1) is 0.
C3_BorderDead ==
    pc = "idle" =>
        \A i \in 0..(Rows + 1), j \in 0..(Columns + 1) :
            (i \in {0, Rows + 1} \/ j \in {0, Columns + 1})
                => At(heap, expanded_board, <<i, j>>) = 0

\* generations have run and alive cells touch the border on two sides
C3_Witness ==
    /\ pc = "idle" /\ op = "run" /\ gens >= 1
    /\ Cell(heap, 0, 0) = 1
    /\ Cell(heap, Rows - 1, Columns - 1) = 1
    /\ heap.expanded # prev.expanded

\* C4: however the generations were split into run_iterations calls, the
\* board is the one a single call run_iterations(gens) yields from the board
\* as constructed.
C4_Composable ==
    (pc = "idle" /\ exc = NoExc) =>
        heap.expanded = run_iterations(self, built, gens, FALSE).heap.expanded

\* two calls of one generation each, both of which changed the board
C4_Witness ==
    /\ pc = "idle" /\ op = "run" /\ n_arg = 1 /\ gens = 2
    /\ heap.expanded # prev.expanded
    /\ heap.expanded # built.expanded
    /\ prev.expanded # built.expanded

\* C5: run_iterations(0) leaves the logical board and the whole padded buffer
\* unchanged and prints nothing, verbose or not.
C5_ZeroIsNoOp ==
    (op = "run" /\ n_arg = 0) =>
        /\ heap = prev
        /\ printed = <<>>
        /\ exc = NoExc

C5_Witness ==
    /\ op = "run" /\ n_arg = 0 /\ verbose_arg
    /\ \E x \in Cells : Cell(heap, x[1], x[2]) = 1
    /\ heap.expanded # run_iterations(self, heap, 1, FALSE).heap.expanded

\* C6: a two-dimensional array with a dimension below 2 or with an element
\* other than 0 and 1 is rejected with the invalid-board error and leaves no
\* board and no padded buffer; the message tells the shape failure from the
\* value failure.
C6_RejectsBadGrid ==
    (pc # "new" /\ IsArray2D /\ (TooSmall \/ NonBinary)) =>
        /\ pc = "raised"
        /\ exc.type = "NotImplementedError"
        /\ exc.msg = IF TooSmall THEN ShapeMsg ELSE ValueMsg
        /\ expanded_board = NoArray
        /\ board = NoArray
        /\ heap.expanded = <<>>

\* a 2 x 2 array holding a 2 was turned away for its values
C6_Witness ==
    /\ pc = "raised" /\ IsArray2D /\ arg.shape = <<2, 2>>
    /\ heap.caller[1] = BadValue
    /\ exc.msg = ValueMsg

\* C7: every initial state that is not a two-dimensional numeric container
\* (a scalar, None, an array of 0, 1 or 3 dimensions) is rejected with the
\* invalid-type error before any padded buffer is allocated.
C7_NotTwoDimIsTypeError ==
    (pc # "new" /\ (arg.kind \in {"int", "NoneType"} \/ Len(arg.shape) # 2)) =>
        /\ pc = "raised"
        /\ exc.type = "NotImplementedError"
        /\ exc.msg = TypeMsg
        /\ expanded_board = NoArray
        /\ heap.expanded = <<>>

\* C8 as stated: every two-dimensional grid of 0s and 1s with both dimensions
\* at least 2 is accepted, whatever kind of container supplies it.
C8_AnyContainerAccepted ==
    (pc # "new" /\ Len(arg.shape) = 2 /\ ~TooSmall /\ ~NonBinary) =>
        pc = "idle" /\ exc = NoExc

\* C8 as amended: every two-dimensional numpy array of 0s and 1s with both
\* dimensions at least 2 is accepted, the 2 x 2 one included; the same grid
\* in a container that is no numpy array is rejected.
C8_NdarrayAccepted ==
    (pc # "new" /\ Len(arg.shape) = 2 /\ ~TooSmall /\ ~NonBinary) =>
        IF arg.kind = "ndarray"
        THEN pc = "idle" /\ exc = NoExc /\ board.shape = arg.shape
        ELSE pc = "raised" /\ exc.msg = TypeMsg

\* the smallest board was accepted
C8_Witness ==
    /\ pc = "idle" /\ op = "construct" /\ exc = NoExc
    /\ arg.kind = "ndarray" /\ arg.shape = <<2, 2>>

\* C9: right after construction from an m x n input the padded buffer is
\* (m+2) x (n+2), its interior rows 1..m and columns 1..n equal the input,
\* every other cell of it is 0, and game.board is m x n and equals the input.
C9_PaddedBuffer ==
    (pc = "idle" /\ op = "construct") =>
        /\ expanded_board.shape = <<Rows + 2, Columns + 2>>
        /\ Len(heap.expanded) = (Rows + 2) * (Columns + 2)
        /\ \A i \in 0..(Rows + 1), j \in 0..(Columns + 1) :
              At(heap, expanded_board, <<i, j>>) =
                  IF i \in 1..Rows /\ j \in 1..Columns
                  THEN InputCell(heap, i - 1, j - 1)
                  ELSE 0
        /\ board.shape = <<Rows, Columns>>
        /\ \A x \in Cells : Cell(heap, x[1], x[2]) = InputCell(heap, x[1], x[2])

\* a board that is not square, with alive and dead cells
C9_Witness ==
    /\ pc = "idle" /\ op = "construct"
    /\ arg.shape = <<2, 3>>
    /\ InputCell(heap, 0, 2) = 1 /\ InputCell(heap, 1, 0) = 1
    /\ InputCell(heap, 0, 0) = 0

\* C10: the constructor copies its argument: neither construction nor
\* run_iterations changes a cell of the caller's array, and a later change
\* of the caller's array changes nothing of the board.
C10_InputCopied ==
    /\ op \in {"construct", "run"} => heap.caller = prev.caller
    /\ (op = "write" /\ pc = "idle") =>
          /\ heap.expanded = prev.expanded
          /\ \A x \in Cells : Cell(heap, x[1], x[2]) = Cell(prev, x[1], x[2])

\* the caller overwrote its array, then a generation changed the board
C10_Witness ==
    /\ pc = "idle" /\ written /\ op = "run" /\ n_arg >= 1
    /\ heap.expanded # prev.expanded
    /\ heap.caller # built.caller

\* C11: run_iterations(n, verbose) performs exactly n generations one after
\* the other; with verbose it prints exactly n snapshots, the i-th being the
\* whole board after i generations (taken after generation i was written
\* and before generation i+1 reads anything); without verbose it prints
\* nothing.
C11_SnapshotPerGeneration ==
    (pc = "idle" /\ op = "run") =>
        /\ exc = NoExc
        /\ Value(heap, board) = Generations(Value(prev, board), n_arg)
        /\ Len(printed) = IF verbose_arg THEN n_arg ELSE 0
        /\ \A i \in 1..Len(printed) :
              printed[i] = Generations(Value(prev, board), i)

\* a verbose call of two generations whose two snapshots differ from each
\* other and from the board before the call
C11_Witness ==
    /\ pc = "idle" /\ op = "run" /\ verbose_arg /\ n_arg = 2
    /\ Len(printed) = 2
    /\ printed[1] # Value(prev, board)
    /\ printed[2] # printed[1]
    /\ printed[2] = Value(heap, board)

C13_Glider ==
    (StartedFrom(glider) /\ gens \in 1..4) =>
        /\ exc = NoExc
        /\ BoardIs(glider_phases[gens])
        /\ gens = 4 =>
              /\ Alive = {<<2,3>>, <<3,1>>, <<3,3>>, <<4,2>>, <<4,3>>}
              /\ Alive = {<<x[1] + 1, x[2] + 1>> :
                             x \in {<<1,2>>, <<2,0>>, <<2,2>>, <<3,1>>, <<3,2>>}}

\* the glider after one call run_iterations(4)
C13_Witness ==
    /\ StartedFrom(glider) /\ op = "run" /\ n_arg = 4 /\ gens = 4
    /\ Alive = {<<2,3>>, <<3,1>>, <<3,3>>, <<4,2>>, <<4,3>>}
    /\ Value(prev, board).flat = Flat(glider)

\* C14: the 3 x 3 board started as the vertical blinker [[0,1,0],[0,1,0],
\* [0,1,0]] is [[0,0,0],[1,1,1],[0,0,0]] after every odd number of
\* generations and the vertical blinker again after every even number, and
\* the border of the padded buffer stays dead throughout, so that it never
\* adds a neighbour.
C14_Blinker ==
    StartedFrom(oscillator) =>
        /\ exc = NoExc
        /\ IF gens % 2 = 1 THEN BoardIs(oscillator_flipped) ELSE BoardIs(oscillator)
        /\ \A i \in 0..(Rows + 1), j \in 0..(Columns + 1) :
              (i \in {0, Rows + 1} \/ j \in {0, Columns + 1})
                  => At(heap, expanded_board, <<i, j>>) = 0

\* the blinker back in its starting position after three and then one more
\* generation, having been horizontal before the last call
C14_Witness ==
    /\ StartedFrom(oscillator) /\ op = "run" /\ gens = 4 /\ n_arg = 1
    /\ BoardIs(oscillator)
    /\ Value(prev, board).flat = Flat(oscillator_flipped)

\* C15: the 5 x 5 board started with exactly the cells (1,1), (1,2), (2,1),
\* (2,3), (3,2) alive (the boat) equals its starting board after one
\* generation and after any number of generations; the padded buffer does
\* not change either.
C15_BoatStill ==
    StartedFrom(boat) =>
        /\ exc = NoExc
        /\ BoardIs(boat)
        /\ Alive = {<<1,1>>, <<1,2>>, <<2,1>>, <<2,3>>, <<3,2>>}
        /\ heap.expanded = built.expanded

\* the boat after one generation, and after more
C15_Witness ==
    /\ StartedFrom(boat) /\ op = "run" /\ n_arg >= 1 /\ gens >= 2
    /\ Alive = {<<1,1>>, <<1,2>>, <<2,1>>, <<2,3>>, <<3,2>>}

====
